---------------------------- MODULE Spec2Model ----------------------------
(***************************************************************************)
(* Model of moveit_jog_arm's JogCalcs (jog_calcs.cpp): the calculation     *)
(* loop startMainLoop, its helpers, and the producers that write the       *)
(* shared variables under the mutex.                                       *)
(*                                                                         *)
(* Numbers are fixed point.  Positions, deltas and velocities are integers *)
(* (publish_period is one time unit), velocity scales are in units of      *)
(* 1/ScaleOne, and NaN is a distinguished value that every comparison      *)
(* treats as C++ does (all ordered comparisons with NaN are false).        *)
(***************************************************************************)
EXTENDS Integers, Sequences, FiniteSets, TLC

VARIABLES
  pc,                        \* position of the calculation thread in startMainLoop
  mutex,                     \* holder of the std::mutex: "free", "calc" or "producer"
  shared_variables,          \* JogArmShared
  parameters_,               \* JogArmParameters (fixed during a run)
  stop_jog_loop_requested_,
  halt_outgoing_jog_cmds_,
  is_initialized_,
  joint_state_,              \* sensor_msgs::JointState: position, velocity
  original_joint_state_,
  incoming_joints_,
  position_filters_,         \* one LowPassFilter state per element
  delta_theta_,
  outgoing_command_,         \* trajectory_msgs::JointTrajectory: points
  has_warning_,
  kinematic_state_,          \* robot_state::RobotState: position, velocity
  tf_moveit_to_cmd_frame_,
  warning_pub_,              \* the messages warning_pub_ published in this iteration
  cartesian_deltas,          \* locals of startMainLoop
  joint_deltas,
  zero_cartesian_cmd_flag,
  zero_joint_cmd_flag,
  stale_command,
  zero_velocity_count,
  collision_scale,           \* local of applyVelocityScaling
  singularity_scale,         \* argument of applyVelocityScaling
  fn_in,                     \* inputs of a function under test (function specifications)
  fn_out,                    \* its result
  writes                     \* number of producer writes so far

vars == <<pc, mutex, shared_variables, parameters_, stop_jog_loop_requested_,
          halt_outgoing_jog_cmds_, is_initialized_, joint_state_,
          original_joint_state_, incoming_joints_, position_filters_,
          delta_theta_, outgoing_command_, has_warning_, kinematic_state_,
          tf_moveit_to_cmd_frame_, warning_pub_, cartesian_deltas, joint_deltas,
          zero_cartesian_cmd_flag, zero_joint_cmd_flag, stale_command,
          zero_velocity_count, collision_scale, singularity_scale, fn_in, fn_out,
          writes>>

-----------------------------------------------------------------------------
(* Bounds of the model *)

\* Width of int in the model: std::numeric_limits<int>::max()
INT_MAX == 3

\* Largest condition number the function specification enumerates
MaxCond == 8

\* Number of writes the producers make to the shared variables after
\* startMainLoop is called
MaxWrites == 2

-----------------------------------------------------------------------------
(* Numbers *)

NaN == -1000000

IsNaN(x) == x = NaN

Fabs(x) == IF x < 0 THEN -x ELSE x

\* fabs(x) > 1 as C++ evaluates it: false for NaN
FabsGtOne(x) == ~IsNaN(x) /\ Fabs(x) > 1

\* Velocity scales are multiples of 1/ScaleOne
ScaleOne == 20

Range(s) == {s[i] : i \in DOMAIN s}

-----------------------------------------------------------------------------
(* The robot model: joint_model_group_ and the variable bounds of its joints *)

JointNames == <<"j1", "j2">>

N == Len(JointNames)

RobotModel == [max_velocity |-> 15, min_position |-> -50, max_position |-> 50]

\* joint_state_name_map_: canonical index of a joint name, 0 if it has none
NameIndex(name) ==
  IF \E i \in 1..N : JointNames[i] = name
  THEN CHOOSE i \in 1..N : JointNames[i] = name
  ELSE 0

Zeros(n) == [i \in 1..n |-> 0]

-----------------------------------------------------------------------------
(* LowPassFilter: one per joint.  The state is the previous measurement;   *)
(* filter(x) smooths x with it, reset(x) makes the next filter(x) return x *)

FilterReset(x) == [previous_measurement |-> x]

FilterOutput(f, x) == (f.previous_measurement + x) \div 2

FilterPush(f, x) == [previous_measurement |-> x]

\* The reset loop with the last joint left out
ResetFilters_AllButLast(filters, position) ==
  [i \in 1..Len(filters) |->
     IF i < N /\ i <= Len(position) THEN FilterReset(position[i]) ELSE filters[i]]

\* for (i < num_joints_) position_filters_[i].reset(joint_state_.position[i])
ResetFilters(filters, position) ==
  [i \in 1..Len(filters) |->
     IF i <= N /\ i <= Len(position) THEN FilterReset(position[i]) ELSE filters[i]]

-----------------------------------------------------------------------------
(* JogCalcs::updateJoints, after the snapshot of shared_variables.joints *)

RECURSIVE StoreJoints(_, _, _)
StoreJoints(incoming, m, position) ==
  IF m > Len(incoming) THEN position
  ELSE LET c == NameIndex(incoming[m].name)
       IN  StoreJoints(incoming, m + 1,
             IF c = 0 THEN position
             ELSE [position EXCEPT ![c] = incoming[m].position])

\* The size test of line 640 with <= for <
UpdateJointsReturns_Strict(incoming) == ~(Len(incoming) <= N)

UpdateJointsReturns(incoming) == ~(Len(incoming) < N)

UpdateJointsState(incoming, js) ==
  IF UpdateJointsReturns(incoming)
  THEN [js EXCEPT !.position = StoreJoints(incoming, 1, js.position)]
  ELSE js

-----------------------------------------------------------------------------
(* Trajectory messages *)

EmptyTrajectory == [points |-> <<>>]

ComposeJointTrajMessage(js) ==
  [points |-> << [positions  |-> IF parameters_.publish_joint_positions
                                 THEN js.position ELSE <<>>,
                  velocities |-> IF parameters_.publish_joint_velocities
                                 THEN js.velocity ELSE <<>>] >>]

\* suddenHalt indexes points[0] and its arrays with operator[]: it is defined
\* only on a trajectory that has them
SuddenHaltDefined(traj) ==
  /\ Len(traj.points) >= 1
  /\ parameters_.publish_joint_positions => Len(traj.points[1].positions) >= N
  /\ parameters_.publish_joint_velocities => Len(traj.points[1].velocities) >= N

SuddenHalt(traj, orig) ==
  [traj EXCEPT !.points[1] =
     [positions  |-> IF parameters_.publish_joint_positions
                     THEN [i \in 1..Len(@.positions) |->
                             IF i <= N THEN orig.position[i] ELSE @.positions[i]]
                     ELSE @.positions,
      velocities |-> IF parameters_.publish_joint_velocities
                     THEN [i \in 1..Len(@.velocities) |->
                             IF i <= N THEN 0 ELSE @.velocities[i]]
                     ELSE @.velocities]]

RECURSIVE PushBackCopies(_, _, _)
PushBackCopies(points, point, k) ==
  IF k <= 0 THEN points ELSE PushBackCopies(Append(points, point), point, k - 1)

\* for (i = 2; i < count + 1; ++i) trajectory.points.push_back(point)
InsertRedundantPointsIntoTrajectory(traj, count) ==
  [traj EXCEPT !.points = PushBackCopies(@, @[1], count - 1)]

-----------------------------------------------------------------------------
(* Command scaling *)

ScaleCartesianCommand(twist) ==
  [i \in 1..6 |->
     IF parameters_.command_in_type = "unitless"
     THEN (IF i <= 3 THEN parameters_.linear_scale ELSE parameters_.rotational_scale)
          * parameters_.publish_period * twist[i]
     ELSE twist[i] * parameters_.publish_period]

RECURSIVE ScaleJointEntries(_, _, _)
ScaleJointEntries(cmd, m, result) ==
  IF m > Len(cmd) THEN result
  ELSE LET c == NameIndex(cmd[m].name)
           v == IF parameters_.command_in_type = "unitless"
                THEN cmd[m].velocity * parameters_.joint_scale * parameters_.publish_period
                ELSE cmd[m].velocity * parameters_.publish_period
       IN  ScaleJointEntries(cmd, m + 1,
             IF c = 0 THEN result ELSE [result EXCEPT ![c] = v])

ScaleJointCommand(cmd) == ScaleJointEntries(cmd, 1, Zeros(N))

\* The checks at the top of cartesianJogCalcs and jointJogCalcs
\* The validation without the std::isnan test
CartesianCommandRejected_NoNaN(twist) ==
  /\ parameters_.command_in_type = "unitless"
  /\ \E i \in 1..6 : FabsGtOne(twist[i])

CartesianCommandRejected(twist) ==
  \/ \E i \in 1..6 : IsNaN(twist[i])
  \/ /\ parameters_.command_in_type = "unitless"
     /\ \E i \in 1..6 : FabsGtOne(twist[i])

JointCommandRejected(cmd) ==
  \E m \in 1..Len(cmd) : IsNaN(cmd[m].velocity) \/ FabsGtOne(cmd[m].velocity)

-----------------------------------------------------------------------------
(* Differential kinematics.  The Jacobian of the modelled arm has one row  *)
(* per Cartesian dimension 0..5; row d drives joint d+1 for d < N and no   *)
(* joint otherwise.  A Jacobian is the sequence of the dimensions of its   *)
(* rows, and delta_x is the aligned sequence of Cartesian deltas.          *)

GetJacobian == <<0, 1, 2, 3, 4, 5>>

\* JogCalcs::removeDimension
RemoveDimension(rows, row_to_remove) ==
  LET num_rows == Len(rows) - 1
  IN  [k \in 1..num_rows |->
         IF row_to_remove < num_rows /\ k - 1 >= row_to_remove
         THEN rows[k + 1] ELSE rows[k]]

\* for (dimension = jacobian.rows(); dimension >= 0; --dimension)
\*   if (drift_dimensions[dimension] && jacobian.rows() > 1) removeDimension(..)
\* drift is the mask as the loop reads it: indices 0..5 are the array, index 6
\* is the element past its end.  jd is the pair <<jacobian, delta_x>>.
RECURSIVE PruneDriftDimensions(_, _, _)
PruneDriftDimensions(jd, drift, dimension) ==
  IF dimension < 0 THEN jd
  ELSE PruneDriftDimensions(
         IF drift[dimension + 1] /\ Len(jd[1]) > 1
         THEN <<RemoveDimension(jd[1], dimension), RemoveDimension(jd[2], dimension)>>
         ELSE jd,
         drift, dimension - 1)

\* delta_theta_ = pseudo_inverse * delta_x
PseudoInverseTimes(jacobian, delta_x) ==
  [j \in 1..N |->
     IF \E k \in 1..Len(jacobian) : jacobian[k] = j - 1
     THEN delta_x[CHOOSE k \in 1..Len(jacobian) : jacobian[k] = j - 1]
     ELSE 0]

\* The tail of velocityScalingFactorForSingularity: the scale for a Jacobian
\* of condition number ini_condition and a dot product dot
VelocityScale(ini_condition, dot) ==
  LET lower == parameters_.lower_singularity_threshold
      hard  == parameters_.hard_stop_singularity_threshold
  IN  IF dot > 0
      THEN IF ini_condition > lower /\ ini_condition < hard
           THEN ScaleOne - (ScaleOne * (ini_condition - lower)) \div (hard - lower)
           ELSE IF ini_condition > hard THEN 0 ELSE ScaleOne
      ELSE ScaleOne

\* JogCalcs::applyVelocityScaling: the scaled delta_theta and the return value
ScaledDeltaTheta(delta_theta, c_scale, s_scale) ==
  [i \in 1..Len(delta_theta) |->
     (c_scale * s_scale * delta_theta[i]) \div (ScaleOne * ScaleOne)]

ApplyVelocityScalingReturns(c_scale, s_scale) ==
  10 * c_scale * s_scale >= ScaleOne * ScaleOne

-----------------------------------------------------------------------------
(* JogCalcs::enforceSRDFJointBounds *)

SatisfiesVelocityBounds(v) == Fabs(v) <= RobotModel.max_velocity

EnforceVelocityBounds(v) ==
  IF v > RobotModel.max_velocity THEN RobotModel.max_velocity
  ELSE IF v < -RobotModel.max_velocity THEN -RobotModel.max_velocity
  ELSE v

\* satisfiesPositionBounds(joint, -joint_limit_margin)
SatisfiesPositionBounds(p) ==
  /\ p >= RobotModel.min_position + parameters_.joint_limit_margin
  /\ p <= RobotModel.max_position - parameters_.joint_limit_margin

\* One iteration of the loop over the joint models: st is
\* [traj, kinematic, halting], j the canonical index (from 1) of the joint
EnforceJoint(st, j, orig) ==
  LET violated  == ~SatisfiesVelocityBounds(st.kinematic.velocity[j])
      kin       == IF violated
                   THEN [st.kinematic EXCEPT !.velocity[j] = EnforceVelocityBounds(@)]
                   ELSE st.kinematic
      c         == j - 1
      traj      == IF violated /\ Len(st.traj.points[1].velocities) > c + 1
                   THEN [st.traj EXCEPT !.points[1].velocities[j] = kin.velocity[j]]
                   ELSE st.traj
      joint_angle == IF j <= Len(orig.position) THEN orig.position[j] ELSE 0
      halt      == /\ ~SatisfiesPositionBounds(kin.position[j])
                   /\ \/ /\ kin.velocity[j] < 0
                         /\ joint_angle < RobotModel.min_position + parameters_.joint_limit_margin
                      \/ /\ kin.velocity[j] > 0
                         /\ joint_angle > RobotModel.max_position - parameters_.joint_limit_margin
  IN  [traj |-> traj, kinematic |-> kin, halting |-> st.halting \/ halt]

RECURSIVE EnforceJoints(_, _, _)
EnforceJoints(st, j, orig) ==
  IF j > N THEN st ELSE EnforceJoints(EnforceJoint(st, j, orig), j + 1, orig)

\* [traj, kinematic, halting]; the function returns !halting
EnforceSRDFJointBounds(traj, kin, orig) ==
  IF traj.points = <<>>
  THEN [traj |-> traj, kinematic |-> kin, halting |-> FALSE]
  ELSE EnforceJoints([traj |-> traj, kinematic |-> kin, halting |-> FALSE], 1, orig)

-----------------------------------------------------------------------------
(* JogCalcs::convertDeltasToOutgoingCmd and what it calls *)

AddJointIncrements(position, increments) ==
  [i \in 1..Len(position) |->
     IF i <= Len(increments) THEN position[i] + increments[i] ELSE position[i]]

\* What a call of addJointIncrements can do.  output.position[i] is
\* std::vector::operator[], which does not check i and does not throw, so the
\* catch of line 740 is never entered: with no more increments than positions
\* the call adds them and returns true; with more, the writes at the indices
\* from position.size() on are outside the vector, which is undefined: the
\* call crashes, or it goes on to the return true of line 748
AddJointIncrementsOutcomes(position, increments) ==
  IF Len(increments) <= Len(position)
  THEN { [outcome |-> "returned", returns |-> TRUE, wrote_outside |-> FALSE,
          position |-> AddJointIncrements(position, increments)] }
  ELSE { [outcome |-> "returned", returns |-> TRUE, wrote_outside |-> TRUE,
          position |-> AddJointIncrements(position, increments)],
         [outcome |-> "crashed", returns |-> TRUE, wrote_outside |-> TRUE,
          position |-> AddJointIncrements(position, increments)] }

\* joint_state.position[i] = position_filters_[i].filter(joint_state.position[i])
LowPassFilterPositions(filters, position) ==
  [i \in 1..Len(position) |->
     IF i <= Len(filters) THEN FilterOutput(filters[i], position[i]) ELSE position[i]]

FiltersAfterFiltering(filters, position) ==
  [i \in 1..Len(filters) |->
     IF i <= Len(position) THEN FilterPush(filters[i], position[i]) ELSE filters[i]]

CalculateJointVelocities(velocity, delta_theta) ==
  [i \in 1..Len(velocity) |->
     IF i <= Len(delta_theta) THEN delta_theta[i] \div parameters_.publish_period
     ELSE velocity[i]]

\* The state convertDeltasToOutgoingCmd leaves: joint_state_, the filters, the
\* kinematic state, outgoing_command_ and the warning it publishes
ConvertDeltasToOutgoingCmd(js, filters, kin, orig, delta_theta, warning) ==
  LET added     == AddJointIncrements(js.position, delta_theta)
      filtered  == LowPassFilterPositions(filters, added)
      new_js    == [position |-> filtered,
                    velocity |-> CalculateJointVelocities(js.velocity, delta_theta)]
      composed  == ComposeJointTrajMessage(new_js)
      enforced  == EnforceSRDFJointBounds(composed, kin, orig)
      halted    == IF enforced.halting THEN SuddenHalt(enforced.traj, orig)
                   ELSE enforced.traj
      padded    == IF parameters_.use_gazebo
                   THEN InsertRedundantPointsIntoTrajectory(
                          halted, parameters_.gazebo_redundant_message_count)
                   ELSE halted
  IN  [joint_state |-> new_js,
       filters     |-> FiltersAfterFiltering(filters, added),
       kinematic   |-> enforced.kinematic,
       outgoing    |-> padded,
       warning     |-> warning \/ enforced.halting]

-----------------------------------------------------------------------------
(* What the producers can put into the shared variables, and the parameter *)
(* sets of a run                                                           *)

ZeroTwist == <<0, 0, 0, 0, 0, 0>>

\* Twists of the spatial commands: zero, valid, a NaN component, over range
CartesianTwists ==
  { ZeroTwist,
    <<1, 0, 0, 0, 0, 0>>,
    <<0, 0, NaN, 0, 0, 0>>,
    <<0, 2, 0, 0, 0, 0>> }

\* Joint commands: lists of (joint name, velocity)
JointCommands ==
  { << [name |-> "x", velocity |-> 1], [name |-> "j2", velocity |-> 1] >>,
    << [name |-> "j1", velocity |-> NaN] >>,
    << [name |-> "j1", velocity |-> 2] >> }

\* Joint telemetry: lists of (joint name, position)
TelemetryMessages ==
  { << >>,
    << [name |-> "j1", position |-> 0], [name |-> "j2", position |-> 0] >>,
    << [name |-> "x", position |-> 7], [name |-> "j2", position |-> 0],
       [name |-> "j1", position |-> 46] >> }

NoDrift == <<FALSE, FALSE, FALSE, FALSE, FALSE, FALSE>>

DriftMasks == { NoDrift, <<FALSE, TRUE, FALSE, FALSE, FALSE, TRUE>> }

\* collision_velocity_scale: 0.05 and 1
CollisionScales == { 1, ScaleOne }

\* Condition numbers and dot products the kinematic model yields in the loop
LoopConditionNumbers == { 1, 5 }

LoopDots == { -1, 1 }

BaseParameters ==
  [command_in_type |-> "unitless",
   publish_period |-> 1,
   linear_scale |-> 20,
   rotational_scale |-> 20,
   joint_scale |-> 20,
   lower_singularity_threshold |-> 2,
   hard_stop_singularity_threshold |-> 4,
   joint_limit_margin |-> 5,
   num_outgoing_halt_msgs_to_publish |-> 1,
   publish_joint_positions |-> TRUE,
   publish_joint_velocities |-> TRUE,
   use_gazebo |-> FALSE,
   gazebo_redundant_message_count |-> 2]

ParameterSets ==
  { [BaseParameters EXCEPT !.use_gazebo = TRUE],
    [BaseParameters EXCEPT !.command_in_type = "speed_units",
                           !.publish_joint_positions = FALSE,
                           !.num_outgoing_halt_msgs_to_publish = 0] }

IsZeroTwist(twist) == \A i \in 1..6 : twist[i] = 0

IsZeroJointCommand(cmd) == \A m \in 1..Len(cmd) : cmd[m].velocity = 0

-----------------------------------------------------------------------------
(* Initial state: a constructed JogCalcs, startMainLoop not yet called, and *)
(* a JogArmShared that holds its defaults and the joint telemetry, if any,  *)
(* that has arrived so far                                                  *)

DefaultTwistStamped == [stamp |-> 0, twist |-> ZeroTwist]

DefaultJointJog == [stamp |-> 0, joints |-> << >>]

DefaultShared ==
  [joints |-> << >>,
   command_deltas |-> DefaultTwistStamped,
   joint_command_deltas |-> DefaultJointJog,
   zero_cartesian_cmd_flag |-> TRUE,
   zero_joint_cmd_flag |-> TRUE,
   command_is_stale |-> FALSE,
   drift_dimensions |-> NoDrift,
   collision_velocity_scale |-> ScaleOne,
   tf_moveit_to_cmd_frame |-> << >>,
   outgoing_command |-> EmptyTrajectory,
   ok_to_publish |-> FALSE]

InitObject ==
  /\ pc = "idle"
  /\ mutex = "free"
  /\ \E msg \in TelemetryMessages :
       shared_variables = [DefaultShared EXCEPT !.joints = msg]
  /\ stop_jog_loop_requested_ = FALSE
  /\ halt_outgoing_jog_cmds_ = FALSE
  /\ is_initialized_ = FALSE
  /\ joint_state_ = [position |-> << >>, velocity |-> << >>]
  /\ original_joint_state_ = [position |-> << >>, velocity |-> << >>]
  /\ incoming_joints_ = << >>
  /\ position_filters_ = << >>
  /\ delta_theta_ = << >>
  /\ outgoing_command_ = EmptyTrajectory
  /\ has_warning_ = FALSE
  /\ kinematic_state_ = [position |-> Zeros(N), velocity |-> Zeros(N)]
  /\ tf_moveit_to_cmd_frame_ = << >>
  /\ warning_pub_ = << >>
  /\ cartesian_deltas = DefaultTwistStamped
  /\ joint_deltas = DefaultJointJog
  /\ zero_cartesian_cmd_flag = TRUE
  /\ zero_joint_cmd_flag = TRUE
  /\ stale_command = FALSE
  /\ zero_velocity_count = 0
  /\ collision_scale = ScaleOne
  /\ singularity_scale = ScaleOne

Init ==
  /\ InitObject
  /\ parameters_ \in ParameterSets
  /\ fn_in = << >>
  /\ fn_out = << >>
  /\ writes = 0

-----------------------------------------------------------------------------
(* Groups of variables, for UNCHANGED *)

gRequests == <<stop_jog_loop_requested_, halt_outgoing_jog_cmds_>>

gFixed == <<parameters_, fn_in, fn_out, writes>>

gJoints == <<joint_state_, original_joint_state_, incoming_joints_>>

gKinematic == <<kinematic_state_, tf_moveit_to_cmd_frame_>>

gCalc == <<delta_theta_, outgoing_command_, has_warning_, warning_pub_,
           collision_scale, singularity_scale>>

gLocals == <<cartesian_deltas, joint_deltas, zero_cartesian_cmd_flag,
             zero_joint_cmd_flag, stale_command, zero_velocity_count>>

\* The locals of the loop body (lines 184, 185, 214) exist from their
\* declaration to the end of the iteration; outside they hold these values
BodyLocalsOutOfScope ==
  /\ zero_cartesian_cmd_flag' = TRUE
  /\ zero_joint_cmd_flag' = TRUE
  /\ stale_command' = FALSE

\* The same for collision_scale and the singularity_scale argument of
\* applyVelocityScaling
ScalesOutOfScope ==
  /\ collision_scale' = ScaleOne
  /\ singularity_scale' = ScaleOne

\* Everything a step of pure control flow leaves alone
gData == <<shared_variables, is_initialized_, position_filters_, gRequests, gFixed,
           gJoints, gKinematic, gCalc, gLocals>>

-----------------------------------------------------------------------------
(* The mutex *)

\* mutex.lock() at position from: blocks until the mutex is free
Lock(from, to) ==
  /\ pc = from
  /\ mutex = "free"
  /\ mutex' = "calc"
  /\ pc' = to
  /\ UNCHANGED gData

\* An unlock that is missing
Unlocked_Missing == "calc"

\* The holder after mutex.unlock()
Unlocked == "free"

\* The positions between a mutex.lock() and its mutex.unlock()
HoldingPositions ==
  {"L96_crit", "L102_crit", "L126_crit", "L141_crit", "L157_crit", "L169_crit",
   "L184_crit", "L192_crit", "L201_crit", "L214_crit", "L229_crit", "L468_crit"}

\* The positions whose next step reads or writes a field of shared_variables:
\* the ones above and line 332, which reads drift_dimensions
SharedAccessPositions == HoldingPositions \cup {"L330"}

-----------------------------------------------------------------------------
(* The other threads: stop and pause requests, and the producers, which    *)
(* write the shared variables while holding the mutex                      *)

LoopAlive == pc \notin {"idle", "returned", "crashed"}

StopMainLoop ==
  /\ ~stop_jog_loop_requested_
  /\ pc \notin {"returned", "crashed"}
  /\ stop_jog_loop_requested_' = TRUE
  /\ UNCHANGED <<pc, mutex, shared_variables, is_initialized_, position_filters_,
                 halt_outgoing_jog_cmds_, gFixed, gJoints, gKinematic, gCalc, gLocals>>

HaltOutgoingJogCmds ==
  /\ ~halt_outgoing_jog_cmds_
  /\ LoopAlive
  /\ halt_outgoing_jog_cmds_' = TRUE
  /\ UNCHANGED <<pc, mutex, shared_variables, is_initialized_, position_filters_,
                 stop_jog_loop_requested_, gFixed, gJoints, gKinematic, gCalc, gLocals>>

ProducerWrites(new_shared) ==
  /\ LoopAlive
  /\ mutex = "free"
  /\ new_shared # shared_variables
  /\ writes < MaxWrites
  /\ shared_variables' = new_shared
  /\ writes' = writes + 1
  /\ UNCHANGED <<pc, mutex, is_initialized_, position_filters_, gRequests,
                 parameters_, fn_in, fn_out, gJoints, gKinematic, gCalc, gLocals>>

ProducerJoints ==
  \E msg \in TelemetryMessages :
    ProducerWrites([shared_variables EXCEPT !.joints = msg])

ProducerCartesianCommand ==
  \E twist \in CartesianTwists :
    ProducerWrites([shared_variables EXCEPT
                      !.command_deltas = [stamp |-> 1, twist |-> twist],
                      !.zero_cartesian_cmd_flag = IsZeroTwist(twist)])

ProducerJointCommand ==
  \E cmd \in JointCommands :
    ProducerWrites([shared_variables EXCEPT
                      !.joint_command_deltas = [stamp |-> 1, joints |-> cmd],
                      !.zero_joint_cmd_flag = IsZeroJointCommand(cmd)])

ProducerStale ==
  \E b \in BOOLEAN :
    ProducerWrites([shared_variables EXCEPT !.command_is_stale = b])

ProducerDrift ==
  \E mask \in DriftMasks :
    ProducerWrites([shared_variables EXCEPT !.drift_dimensions = mask])

ProducerCollisionScale ==
  \E c \in CollisionScales :
    ProducerWrites([shared_variables EXCEPT !.collision_velocity_scale = c])

-----------------------------------------------------------------------------
(* JogCalcs::startMainLoop: start-up.  The positions of the thread are     *)
(* named after the source lines.                                           *)

\* std::vector::resize(n) from the current contents
Resize(v, n) == [i \in 1..n |-> IF i <= Len(v) THEN v[i] ELSE 0]

\* position_filters_.emplace_back(coeff), num_joints_ times
RECURSIVE EmplaceFilters(_, _)
EmplaceFilters(filters, k) ==
  IF k <= 0 THEN filters ELSE EmplaceFilters(Append(filters, FilterReset(0)), k - 1)

\* kinematic_state_->setVariableValues(joint_state_)
SetVariableValues(kin, js) ==
  [position |-> IF js.position = << >> THEN kin.position ELSE js.position,
   velocity |-> IF js.velocity = << >> THEN kin.velocity ELSE js.velocity]

\* (base->planning_frame)^-1 * (base->command_frame) of a kinematic state:
\* a pose is identified by the joint positions it is computed from
GlobalLinkTransform(kin) == kin.position

\* Lines 69-93
StartMainLoop ==
  /\ pc = "idle"
  /\ stop_jog_loop_requested_' = FALSE
  /\ halt_outgoing_jog_cmds_' = FALSE
  /\ is_initialized_' = FALSE
  /\ joint_state_' = [position |-> Resize(joint_state_.position, N),
                      velocity |-> Resize(joint_state_.velocity, N)]
  /\ position_filters_' = EmplaceFilters(position_filters_, N)
  /\ pc' = "L96_lock"
  /\ UNCHANGED <<mutex, shared_variables, gFixed, original_joint_state_,
                 incoming_joints_, gKinematic, gCalc, gLocals>>

\* updateJoints, called from line 96 (site "L96") or line 157 (site "L157")
UpdateJointsLock(site) == Lock(site \o "_lock", site \o "_crit")

UpdateJointsRead(site) ==
  /\ pc = site \o "_crit"
  /\ incoming_joints_' = shared_variables.joints
  /\ mutex' = Unlocked
  /\ pc' = site \o "_body"
  /\ UNCHANGED <<shared_variables, is_initialized_, position_filters_, gRequests,
                 gFixed, joint_state_, original_joint_state_, gKinematic, gCalc,
                 gLocals>>

\* Lines 639-663, and where the caller goes with the result
UpdateJointsBody(site, if_true, if_false) ==
  /\ pc = site \o "_body"
  /\ joint_state_' = UpdateJointsState(incoming_joints_, joint_state_)
  /\ original_joint_state_' = IF UpdateJointsReturns(incoming_joints_)
                              THEN joint_state_' ELSE original_joint_state_
  /\ pc' = IF UpdateJointsReturns(incoming_joints_) THEN if_true ELSE if_false
  /\ UNCHANGED <<mutex, shared_variables, is_initialized_, position_filters_,
                 gRequests, gFixed, incoming_joints_, gKinematic, gCalc, gLocals>>

\* Lines 96-99: the first wait
InitialUpdateJoints ==
  UpdateJointsBody("L96", "L107",
                   IF stop_jog_loop_requested_ THEN "returned" ELSE "L101_lock")

\* Lines 101-104
InitialRetryRead ==
  /\ pc = "L102_crit"
  /\ incoming_joints_' = shared_variables.joints
  /\ mutex' = Unlocked
  /\ pc' = "L104_sleep"
  /\ UNCHANGED <<shared_variables, is_initialized_, position_filters_, gRequests,
                 gFixed, joint_state_, original_joint_state_, gKinematic, gCalc,
                 gLocals>>

InitialRetrySleep ==
  /\ pc = "L104_sleep"
  /\ pc' = "L96_lock"
  /\ UNCHANGED <<mutex, gData>>

\* Lines 107-112
MarkInitialized ==
  /\ pc = "L107"
  /\ is_initialized_' = TRUE
  /\ cartesian_deltas' = DefaultTwistStamped
  /\ joint_deltas' = DefaultJointJog
  /\ pc' = "L113"
  /\ UNCHANGED <<mutex, shared_variables, position_filters_, gRequests, gFixed,
                 gJoints, gKinematic, gCalc, zero_cartesian_cmd_flag,
                 zero_joint_cmd_flag, stale_command, zero_velocity_count>>

\* The wait of line 113 with != written for the first == : the loop is
\* entered at once
WaitForCommandTest_WrongTest ==
  /\ pc = "L113"
  /\ IF cartesian_deltas.stamp # 0 /\ joint_deltas.stamp = 0
     THEN /\ pc' = IF stop_jog_loop_requested_ THEN "returned" ELSE "L118_sleep"
          /\ UNCHANGED zero_velocity_count
     ELSE /\ pc' = "L152"
          /\ zero_velocity_count' = 0
  /\ UNCHANGED <<mutex, shared_variables, is_initialized_, position_filters_,
                 gRequests, gFixed, gJoints, gKinematic, gCalc, cartesian_deltas,
                 joint_deltas, zero_cartesian_cmd_flag, zero_joint_cmd_flag,
                 stale_command>>

\* Lines 113-118 and, when the wait is over, lines 147-149
WaitForCommandTest ==
  /\ pc = "L113"
  /\ IF cartesian_deltas.stamp = 0 /\ joint_deltas.stamp = 0
     THEN /\ pc' = IF stop_jog_loop_requested_ THEN "returned" ELSE "L118_sleep"
          /\ UNCHANGED zero_velocity_count
     ELSE /\ pc' = "L152"
          /\ zero_velocity_count' = 0
  /\ UNCHANGED <<mutex, shared_variables, is_initialized_, position_filters_,
                 gRequests, gFixed, gJoints, gKinematic, gCalc, cartesian_deltas,
                 joint_deltas, zero_cartesian_cmd_flag, zero_joint_cmd_flag,
                 stale_command>>

\* Lines 118-122
WaitForCommandSleep ==
  /\ pc = "L118_sleep"
  /\ position_filters_' = ResetFilters(position_filters_, joint_state_.position)
  /\ pc' = "L125_lock"
  /\ UNCHANGED <<mutex, shared_variables, is_initialized_, gRequests, gFixed,
                 gJoints, gKinematic, gCalc, gLocals>>

\* Lines 126-129
WaitForCommandRead ==
  /\ pc = "L126_crit"
  /\ cartesian_deltas' = shared_variables.command_deltas
  /\ joint_deltas' = shared_variables.joint_command_deltas
  /\ incoming_joints_' = shared_variables.joints
  /\ mutex' = Unlocked
  /\ pc' = "L131"
  /\ UNCHANGED <<shared_variables, is_initialized_, position_filters_, gRequests,
                 gFixed, joint_state_, original_joint_state_, gKinematic, gCalc,
                 zero_cartesian_cmd_flag, zero_joint_cmd_flag, stale_command,
                 zero_velocity_count>>

\* Lines 131-138 and 161-167
ComputeTransform(from, to) ==
  /\ pc = from
  /\ kinematic_state_' = SetVariableValues(kinematic_state_, joint_state_)
  /\ tf_moveit_to_cmd_frame_' = GlobalLinkTransform(kinematic_state_')
  /\ pc' = to
  /\ UNCHANGED <<mutex, shared_variables, is_initialized_, position_filters_,
                 gRequests, gFixed, gJoints, gCalc, gLocals>>

\* Lines 141-142 and 169-170
PublishTransform(from, to) ==
  /\ pc = from
  /\ shared_variables' =
       [shared_variables EXCEPT !.tf_moveit_to_cmd_frame = tf_moveit_to_cmd_frame_]
  /\ mutex' = Unlocked
  /\ pc' = to
  /\ UNCHANGED <<is_initialized_, position_filters_, gRequests, gFixed, gJoints,
                 gKinematic, gCalc, gLocals>>

-----------------------------------------------------------------------------
(* JogCalcs::startMainLoop: the jogging loop, lines 152-262 *)

\* Line 152
LoopTest ==
  /\ pc = "L152"
  /\ pc' = IF ~stop_jog_loop_requested_ THEN "L157_lock" ELSE "returned"
  /\ warning_pub_' = << >>
  /\ UNCHANGED <<mutex, shared_variables, is_initialized_, position_filters_,
                 gRequests, gFixed, gJoints, gKinematic, delta_theta_,
                 outgoing_command_, has_warning_, collision_scale, singularity_scale,
                 gLocals>>

\* Lines 157-160
LoopUpdateJoints == UpdateJointsBody("L157", "L161", "L159_sleep")

LoopRetrySleep ==
  /\ pc = "L159_sleep"
  /\ pc' = "L157_lock"
  /\ UNCHANGED <<mutex, gData>>

\* Lines 174-181
PausedTest ==
  /\ pc = "L174"
  /\ IF halt_outgoing_jog_cmds_
     THEN /\ position_filters_' = ResetFilters(position_filters_, joint_state_.position)
          /\ pc' = "L261_sleep"
     ELSE /\ UNCHANGED position_filters_
          /\ pc' = "L183_lock"
  /\ UNCHANGED <<mutex, shared_variables, is_initialized_, gRequests, gFixed,
                 gJoints, gKinematic, gCalc, gLocals>>

\* Lines 184-186
ReadZeroFlags ==
  /\ pc = "L184_crit"
  /\ zero_cartesian_cmd_flag' = shared_variables.zero_cartesian_cmd_flag
  /\ zero_joint_cmd_flag' = shared_variables.zero_joint_cmd_flag
  /\ mutex' = Unlocked
  /\ pc' = "L189"
  /\ UNCHANGED <<shared_variables, is_initialized_, position_filters_, gRequests,
                 gFixed, gJoints, gKinematic, gCalc, cartesian_deltas, joint_deltas,
                 stale_command, zero_velocity_count>>

\* The branches with the joint command tested first
CommandBranch_JointFirst(zero_cartesian, zero_joint) ==
  IF ~zero_joint THEN "joint"
  ELSE IF ~zero_cartesian THEN "cartesian"
  ELSE "standstill"

\* Lines 189, 198, 207: which calculation the cycle runs
CommandBranch(zero_cartesian, zero_joint) ==
  IF ~zero_cartesian THEN "cartesian"
  ELSE IF ~zero_joint THEN "joint"
  ELSE "standstill"

\* Lines 189-210
SelectCommand ==
  /\ pc = "L189"
  /\ LET branch == CommandBranch(zero_cartesian_cmd_flag, zero_joint_cmd_flag)
     IN  /\ pc' = CASE branch = "cartesian" -> "L191_lock"
                    [] branch = "joint" -> "L200_lock"
                    [] OTHER -> "L213_lock"
         /\ outgoing_command_' = IF branch = "standstill"
                                 THEN ComposeJointTrajMessage(joint_state_)
                                 ELSE outgoing_command_
  /\ UNCHANGED <<mutex, shared_variables, is_initialized_, position_filters_,
                 gRequests, gFixed, gJoints, gKinematic, delta_theta_, has_warning_,
                 warning_pub_, collision_scale, singularity_scale, gLocals>>

\* Lines 192-193
ReadCartesianCommand ==
  /\ pc = "L192_crit"
  /\ cartesian_deltas' = shared_variables.command_deltas
  /\ mutex' = Unlocked
  /\ pc' = "L195"
  /\ UNCHANGED <<shared_variables, is_initialized_, position_filters_, gRequests,
                 gFixed, gJoints, gKinematic, gCalc, joint_deltas,
                 zero_cartesian_cmd_flag, zero_joint_cmd_flag, stale_command,
                 zero_velocity_count>>

\* Lines 201-202
ReadJointCommand ==
  /\ pc = "L201_crit"
  /\ joint_deltas' = shared_variables.joint_command_deltas
  /\ mutex' = Unlocked
  /\ pc' = "L204"
  /\ UNCHANGED <<shared_variables, is_initialized_, position_filters_, gRequests,
                 gFixed, gJoints, gKinematic, gCalc, cartesian_deltas,
                 zero_cartesian_cmd_flag, zero_joint_cmd_flag, stale_command,
                 zero_velocity_count>>

\* The rejection without the continue of line 196: the cycle goes on to the
\* counter of line 251
CartesianValidate_NoContinue ==
  /\ pc = "L195"
  /\ pc' = IF CartesianCommandRejected(cartesian_deltas.twist) THEN "L251" ELSE "L330"
  /\ UNCHANGED <<mutex, shared_variables, is_initialized_, position_filters_,
                 gRequests, gFixed, gJoints, gKinematic, gCalc, gLocals>>

\* cartesianJogCalcs, lines 283-300: an invalid command ends the cycle at the
\* continue of line 196
CartesianValidate ==
  /\ pc = "L195"
  /\ IF CartesianCommandRejected(cartesian_deltas.twist)
     THEN /\ pc' = "L152"
          /\ BodyLocalsOutOfScope
     ELSE /\ pc' = "L330"
          /\ UNCHANGED <<zero_cartesian_cmd_flag, zero_joint_cmd_flag, stale_command>>
  /\ UNCHANGED <<mutex, shared_variables, is_initialized_, position_filters_,
                 gRequests, gFixed, gJoints, gKinematic, gCalc, cartesian_deltas,
                 joint_deltas, zero_velocity_count>>

\* What the read of shared_variables.drift_dimensions at line 332 can yield
\* while a producer writes the mask: each element the old or the new value
TornMasks(old) ==
  { [d \in 1..6 |-> IF d \in new_part THEN m[d] ELSE old[d]] :
      new_part \in SUBSET (1..6), m \in DriftMasks }

\* The probe of velocityScalingFactorForSingularity, lines 503-506
ProbeJointPositions(kin) == [kin EXCEPT !.position[1] = @ + 1]

\* cartesianJogCalcs, lines 321-347: delta_x, the Jacobian, the drift
\* dimensions, delta_theta_ and the singularity scale
CartesianSolve ==
  /\ pc = "L330"
  /\ \E mask \in (IF mutex = "calc" THEN {shared_variables.drift_dimensions}
                  ELSE TornMasks(shared_variables.drift_dimensions)),
        past_end \in BOOLEAN,
        ini_condition \in LoopConditionNumbers,
        dot \in LoopDots :
       LET jd == PruneDriftDimensions(
                   <<GetJacobian, ScaleCartesianCommand(cartesian_deltas.twist)>>,
                   Append(mask, past_end), Len(GetJacobian))
       IN  /\ delta_theta_' = PseudoInverseTimes(jd[1], jd[2])
           /\ singularity_scale' = VelocityScale(ini_condition, dot)
  /\ kinematic_state_' = ProbeJointPositions(kinematic_state_)
  /\ pc' = "L467_lock"
  /\ UNCHANGED <<mutex, shared_variables, is_initialized_, position_filters_,
                 gRequests, gFixed, gJoints, tf_moveit_to_cmd_frame_,
                 outgoing_command_, has_warning_, warning_pub_, collision_scale,
                 gLocals>>

\* applyVelocityScaling, lines 468-469
ReadCollisionScale ==
  /\ pc = "L468_crit"
  /\ collision_scale' = shared_variables.collision_velocity_scale
  /\ mutex' = Unlocked
  /\ pc' = "L471"
  /\ UNCHANGED <<shared_variables, is_initialized_, position_filters_, gRequests,
                 gFixed, gJoints, gKinematic, delta_theta_, outgoing_command_,
                 has_warning_, warning_pub_, singularity_scale, gLocals>>

\* The commit of a calculation: what convertDeltasToOutgoingCmd leaves, with
\* the warning it publishes (lines 394-395)
Commit(kin, delta_theta, warning) ==
  LET conv == ConvertDeltasToOutgoingCmd(joint_state_, position_filters_, kin,
                                         original_joint_state_, delta_theta, warning)
  IN  /\ delta_theta_' = delta_theta
      /\ joint_state_' = conv.joint_state
      /\ position_filters_' = conv.filters
      /\ kinematic_state_' = conv.kinematic
      /\ outgoing_command_' = conv.outgoing
      /\ warning_pub_' = Append(warning_pub_, conv.warning)
      /\ has_warning_' = FALSE

\* applyVelocityScaling line 471-474 and cartesianJogCalcs lines 346-353.
\* suddenHalt on a trajectory without points is undefined: the thread may
\* crash, or go on with outgoing_command_ as it was.
CartesianCommit ==
  /\ pc = "L471"
  /\ LET stuck == ~ApplyVelocityScalingReturns(collision_scale, singularity_scale)
         scaled == ScaledDeltaTheta(delta_theta_, collision_scale, singularity_scale)
     IN  \/ /\ stuck /\ ~SuddenHaltDefined(outgoing_command_)
            /\ pc' = "crashed"
            /\ UNCHANGED <<delta_theta_, joint_state_, position_filters_,
                           kinematic_state_, outgoing_command_, warning_pub_,
                           has_warning_>>
         \/ /\ Commit(kinematic_state_, scaled, stuck)
            /\ pc' = "L213_lock"
  /\ ScalesOutOfScope
  /\ UNCHANGED <<mutex, shared_variables, is_initialized_, gRequests, gFixed,
                 original_joint_state_, incoming_joints_, tf_moveit_to_cmd_frame_,
                 gLocals>>

\* jointJogCalcs, lines 359-373
JointCommit ==
  /\ pc = "L204"
  /\ IF JointCommandRejected(joint_deltas.joints)
     THEN /\ pc' = "L152"
          /\ BodyLocalsOutOfScope
          /\ UNCHANGED <<delta_theta_, joint_state_, position_filters_,
                         kinematic_state_, outgoing_command_, warning_pub_,
                         has_warning_>>
     ELSE /\ Commit(SetVariableValues(kinematic_state_, joint_state_),
                    ScaleJointCommand(joint_deltas.joints), has_warning_)
          /\ pc' = "L213_lock"
          /\ UNCHANGED <<zero_cartesian_cmd_flag, zero_joint_cmd_flag, stale_command>>
  /\ UNCHANGED <<mutex, shared_variables, is_initialized_, gRequests, gFixed,
                 original_joint_state_, incoming_joints_, tf_moveit_to_cmd_frame_,
                 collision_scale, singularity_scale, cartesian_deltas, joint_deltas,
                 zero_velocity_count>>

\* Lines 214-215
ReadStale ==
  /\ pc = "L214_crit"
  /\ stale_command' = shared_variables.command_is_stale
  /\ mutex' = Unlocked
  /\ pc' = "L217"
  /\ UNCHANGED <<shared_variables, is_initialized_, position_filters_, gRequests,
                 gFixed, gJoints, gKinematic, gCalc, cartesian_deltas, joint_deltas,
                 zero_cartesian_cmd_flag, zero_joint_cmd_flag, zero_velocity_count>>

\* Lines 217-222
HaltIfStale ==
  /\ pc = "L217"
  /\ IF stale_command \/ (zero_cartesian_cmd_flag /\ zero_joint_cmd_flag)
     THEN /\ outgoing_command_' = SuddenHalt(outgoing_command_, original_joint_state_)
          /\ zero_cartesian_cmd_flag' = TRUE
          /\ zero_joint_cmd_flag' = TRUE
     ELSE UNCHANGED <<outgoing_command_, zero_cartesian_cmd_flag, zero_joint_cmd_flag>>
  /\ pc' = "L227_lock"
  /\ UNCHANGED <<mutex, shared_variables, is_initialized_, position_filters_,
                 gRequests, gFixed, gJoints, gKinematic, delta_theta_, has_warning_,
                 warning_pub_, collision_scale, singularity_scale, cartesian_deltas,
                 joint_deltas, stale_command, zero_velocity_count>>

\* The publish decision with the bound compared by >= instead of >
PublishDecision_AtBound(valid_nonzero_command, count, num_halt_msgs) ==
  IF valid_nonzero_command THEN "publish"
  ELSE IF num_halt_msgs # 0 /\ count >= num_halt_msgs THEN "skip"
  ELSE "publish"

\* Lines 224-246: "publish" writes the slot and sets ok_to_publish, "skip"
\* clears ok_to_publish
PublishDecision(valid_nonzero_command, count, num_halt_msgs) ==
  IF valid_nonzero_command THEN "publish"
  ELSE IF num_halt_msgs # 0 /\ count > num_halt_msgs THEN "skip"
  ELSE "publish"

\* Lines 224-247
Publish ==
  /\ pc = "L229_crit"
  /\ LET valid_nonzero_command == ~zero_cartesian_cmd_flag \/ ~zero_joint_cmd_flag
         decision == PublishDecision(valid_nonzero_command, zero_velocity_count,
                                     parameters_.num_outgoing_halt_msgs_to_publish)
     IN  shared_variables' =
           IF decision = "publish"
           THEN [shared_variables EXCEPT !.outgoing_command = outgoing_command_,
                                         !.ok_to_publish = TRUE]
           ELSE [shared_variables EXCEPT !.ok_to_publish = FALSE]
  /\ mutex' = Unlocked
  /\ pc' = "L251"
  /\ UNCHANGED <<is_initialized_, position_filters_, gRequests, gFixed, gJoints,
                 gKinematic, gCalc, gLocals>>

\* The counter without the test of line 254: ++ at INT_MAX wraps
NextZeroVelocityCount_Wraps(count, zero_cartesian, zero_joint) ==
  IF zero_cartesian /\ zero_joint
  THEN IF count = INT_MAX THEN -INT_MAX - 1 ELSE count + 1
  ELSE 0

\* The counter without the reset of line 258
NextZeroVelocityCount_NoReset(count, zero_cartesian, zero_joint) ==
  IF zero_cartesian /\ zero_joint
  THEN IF count < INT_MAX THEN count + 1 ELSE count
  ELSE count

\* Lines 251-258
NextZeroVelocityCount(count, zero_cartesian, zero_joint) ==
  IF zero_cartesian /\ zero_joint
  THEN IF count < INT_MAX THEN count + 1 ELSE count
  ELSE 0

CountZeroCycles ==
  /\ pc = "L251"
  /\ zero_velocity_count' = NextZeroVelocityCount(zero_velocity_count,
                              zero_cartesian_cmd_flag, zero_joint_cmd_flag)
  /\ BodyLocalsOutOfScope
  /\ pc' = "L261_sleep"
  /\ UNCHANGED <<mutex, shared_variables, is_initialized_, position_filters_,
                 gRequests, gFixed, gJoints, gKinematic, gCalc, cartesian_deltas,
                 joint_deltas>>

\* Line 261
PeriodSleep ==
  /\ pc = "L261_sleep"
  /\ pc' = "L152"
  /\ UNCHANGED <<mutex, gData>>

-----------------------------------------------------------------------------
(* The specification *)

CalcStep ==
  \/ StartMainLoop
  \/ UpdateJointsLock("L96")
  \/ UpdateJointsRead("L96")
  \/ InitialUpdateJoints
  \/ Lock("L101_lock", "L102_crit")
  \/ InitialRetryRead
  \/ InitialRetrySleep
  \/ MarkInitialized
  \/ WaitForCommandTest
  \/ WaitForCommandSleep
  \/ Lock("L125_lock", "L126_crit")
  \/ WaitForCommandRead
  \/ ComputeTransform("L131", "L140_lock")
  \/ Lock("L140_lock", "L141_crit")
  \/ PublishTransform("L141_crit", "L113")
  \/ LoopTest
  \/ UpdateJointsLock("L157")
  \/ UpdateJointsRead("L157")
  \/ LoopUpdateJoints
  \/ LoopRetrySleep
  \/ ComputeTransform("L161", "L168_lock")
  \/ Lock("L168_lock", "L169_crit")
  \/ PublishTransform("L169_crit", "L174")
  \/ PausedTest
  \/ Lock("L183_lock", "L184_crit")
  \/ ReadZeroFlags
  \/ SelectCommand
  \/ Lock("L191_lock", "L192_crit")
  \/ ReadCartesianCommand
  \/ CartesianValidate
  \/ CartesianSolve
  \/ Lock("L467_lock", "L468_crit")
  \/ ReadCollisionScale
  \/ CartesianCommit
  \/ Lock("L200_lock", "L201_crit")
  \/ ReadJointCommand
  \/ JointCommit
  \/ Lock("L213_lock", "L214_crit")
  \/ ReadStale
  \/ HaltIfStale
  \/ Lock("L227_lock", "L229_crit")
  \/ Publish
  \/ CountZeroCycles
  \/ PeriodSleep

OtherThreads ==
  \/ StopMainLoop
  \/ HaltOutgoingJogCmds
  \/ ProducerJoints
  \/ ProducerCartesianCommand
  \/ ProducerJointCommand
  \/ ProducerStale
  \/ ProducerDrift
  \/ ProducerCollisionScale

Next == CalcStep \/ OtherThreads

Spec == Init /\ [][Next]_vars

\* The calculation thread runs whenever it can: the scheduler does not starve it
FairSpec == Spec /\ WF_vars(CalcStep)

-----------------------------------------------------------------------------
(* A specification for velocityScalingFactorForSingularity alone: the       *)
(* thresholds, the condition number and the dot product are drawn from      *)
(* bounded sets and the function is applied to them                         *)

SingularityInputs ==
  [ini_condition : 0..MaxCond, dot : {-1, 0, 1}]

SingularityThresholds ==
  { th \in [lower : 1..4, hard : 1..4] : th.lower < th.hard }

SingularityInit ==
  /\ InitObject
  /\ writes = 0
  /\ \E th \in SingularityThresholds :
       parameters_ = [BaseParameters EXCEPT
                        !.lower_singularity_threshold = th.lower,
                        !.hard_stop_singularity_threshold = th.hard]
  /\ fn_in \in SingularityInputs
  /\ fn_out = << >>

ApplyVelocityScale ==
  /\ fn_out = << >>
  /\ fn_out' = << VelocityScale(fn_in.ini_condition, fn_in.dot) >>
  /\ UNCHANGED <<pc, mutex, shared_variables, parameters_, stop_jog_loop_requested_,
                 halt_outgoing_jog_cmds_, is_initialized_, joint_state_,
                 original_joint_state_, incoming_joints_, position_filters_,
                 delta_theta_, outgoing_command_, has_warning_, kinematic_state_,
                 tf_moveit_to_cmd_frame_, warning_pub_, cartesian_deltas,
                 joint_deltas, zero_cartesian_cmd_flag, zero_joint_cmd_flag,
                 stale_command, zero_velocity_count, collision_scale,
                 singularity_scale, fn_in, writes>>

SingularityNext == ApplyVelocityScale

SingularitySpec == SingularityInit /\ [][SingularityNext]_vars

-----------------------------------------------------------------------------
(* A specification for the drift-dimension loop of cartesianJogCalcs alone:  *)
(* the mask, the value the read past its end yields and delta_x are drawn    *)
(* from bounded sets and the loop is applied to the full Jacobian            *)

AllDriftMasks == [1..6 -> BOOLEAN]

PruneInputs ==
  [mask : AllDriftMasks, past_end : BOOLEAN, delta_x : {<<10, 11, 12, 13, 14, 15>>}]

PruneInit ==
  /\ InitObject
  /\ writes = 0
  /\ parameters_ = BaseParameters
  /\ fn_in \in PruneInputs
  /\ fn_out = << >>

ApplyPruneDriftDimensions ==
  /\ fn_out = << >>
  /\ fn_out' = PruneDriftDimensions(<<GetJacobian, fn_in.delta_x>>,
                                    Append(fn_in.mask, fn_in.past_end),
                                    Len(GetJacobian))
  /\ UNCHANGED <<pc, mutex, shared_variables, parameters_, stop_jog_loop_requested_,
                 halt_outgoing_jog_cmds_, is_initialized_, joint_state_,
                 original_joint_state_, incoming_joints_, position_filters_,
                 delta_theta_, outgoing_command_, has_warning_, kinematic_state_,
                 tf_moveit_to_cmd_frame_, warning_pub_, cartesian_deltas,
                 joint_deltas, zero_cartesian_cmd_flag, zero_joint_cmd_flag,
                 stale_command, zero_velocity_count, collision_scale,
                 singularity_scale, fn_in, writes>>

PruneNext == ApplyPruneDriftDimensions

PruneSpec == PruneInit /\ [][PruneNext]_vars

-----------------------------------------------------------------------------
(* A specification for updateJoints alone, after its snapshot of the shared  *)
(* telemetry: the snapshot and the members it works on are drawn from        *)
(* bounded sets                                                              *)

\* Longest telemetry message the function specification enumerates
MaxTelemetry == 3

TelemetryEntries == [name : {"j1", "j2", "x"}, position : {1, 2}]

RECURSIVE SeqsUpTo(_, _)
SeqsUpTo(S, n) ==
  IF n = 0 THEN { << >> }
  ELSE LET shorter == SeqsUpTo(S, n - 1)
       IN  shorter \cup { Append(q, e) : q \in {r \in shorter : Len(r) = n - 1}, e \in S }

UpdateJointsInputs ==
  [incoming : SeqsUpTo(TelemetryEntries, MaxTelemetry),
   joint_state : {[position |-> <<5, 6>>, velocity |-> <<3, 4>>]},
   original : {[position |-> <<8, 9>>, velocity |-> <<0, 0>>]}]

UpdateJointsInit ==
  /\ InitObject
  /\ writes = 0
  /\ parameters_ = BaseParameters
  /\ fn_in \in UpdateJointsInputs
  /\ fn_out = << >>

ApplyUpdateJoints ==
  /\ fn_out = << >>
  /\ LET returns == UpdateJointsReturns(fn_in.incoming)
         js      == UpdateJointsState(fn_in.incoming, fn_in.joint_state)
     IN  fn_out' = [returns     |-> returns,
                    joint_state |-> js,
                    original    |-> IF returns THEN js ELSE fn_in.original]
  /\ UNCHANGED <<pc, mutex, shared_variables, parameters_, stop_jog_loop_requested_,
                 halt_outgoing_jog_cmds_, is_initialized_, joint_state_,
                 original_joint_state_, incoming_joints_, position_filters_,
                 delta_theta_, outgoing_command_, has_warning_, kinematic_state_,
                 tf_moveit_to_cmd_frame_, warning_pub_, cartesian_deltas,
                 joint_deltas, zero_cartesian_cmd_flag, zero_joint_cmd_flag,
                 stale_command, zero_velocity_count, collision_scale,
                 singularity_scale, fn_in, writes>>

UpdateJointsNext == ApplyUpdateJoints

UpdateJointsSpec == UpdateJointsInit /\ [][UpdateJointsNext]_vars

-----------------------------------------------------------------------------
(* A specification for addJointIncrements alone: the position vector and    *)
(* the increments are drawn from bounded sets, the increments up to one     *)
(* longer than the longest position vector                                  *)

AddJointIncrementsInputs ==
  [position : SeqsUpTo({0, 5}, N), increments : SeqsUpTo({1, 2}, N + 1)]

AddJointIncrementsInit ==
  /\ InitObject
  /\ writes = 0
  /\ parameters_ = BaseParameters
  /\ fn_in \in AddJointIncrementsInputs
  /\ fn_out = << >>

ApplyAddJointIncrements ==
  /\ fn_out = << >>
  /\ fn_out' \in AddJointIncrementsOutcomes(fn_in.position, fn_in.increments)
  /\ UNCHANGED <<pc, mutex, shared_variables, parameters_, stop_jog_loop_requested_,
                 halt_outgoing_jog_cmds_, is_initialized_, joint_state_,
                 original_joint_state_, incoming_joints_, position_filters_,
                 delta_theta_, outgoing_command_, has_warning_, kinematic_state_,
                 tf_moveit_to_cmd_frame_, warning_pub_, cartesian_deltas,
                 joint_deltas, zero_cartesian_cmd_flag, zero_joint_cmd_flag,
                 stale_command, zero_velocity_count, collision_scale,
                 singularity_scale, fn_in, writes>>

AddJointIncrementsNext == ApplyAddJointIncrements

AddJointIncrementsSpec == AddJointIncrementsInit /\ [][AddJointIncrementsNext]_vars

-----------------------------------------------------------------------------
(* A specification for enforceSRDFJointBounds alone: the trajectory, the    *)
(* kinematic state and original_joint_state_ are drawn from bounded sets    *)

SRDFVelocities == {-20, 0, 10, 20}

SRDFInputs ==
  [traj : { [points |-> << [positions |-> <<0, 0>>, velocities |-> v] >>] :
              v \in [1..N -> {0, 20}] },
   kinematic : [position : {<<0, 0>>, <<46, 0>>, <<0, -46>>},
                velocity : [1..N -> SRDFVelocities]],
   original : {[position |-> <<0, 0>>, velocity |-> <<0, 0>>],
               [position |-> <<46, -46>>, velocity |-> <<0, 0>>]}]

SRDFInit ==
  /\ InitObject
  /\ writes = 0
  /\ parameters_ = BaseParameters
  /\ fn_in \in SRDFInputs
  /\ fn_out = << >>

ApplyEnforceSRDFJointBounds ==
  /\ fn_out = << >>
  /\ fn_out' = EnforceSRDFJointBounds(fn_in.traj, fn_in.kinematic, fn_in.original)
  /\ UNCHANGED <<pc, mutex, shared_variables, parameters_, stop_jog_loop_requested_,
                 halt_outgoing_jog_cmds_, is_initialized_, joint_state_,
                 original_joint_state_, incoming_joints_, position_filters_,
                 delta_theta_, outgoing_command_, has_warning_, kinematic_state_,
                 tf_moveit_to_cmd_frame_, warning_pub_, cartesian_deltas,
                 joint_deltas, zero_cartesian_cmd_flag, zero_joint_cmd_flag,
                 stale_command, zero_velocity_count, collision_scale,
                 singularity_scale, fn_in, writes>>

SRDFNext == ApplyEnforceSRDFJointBounds

SRDFSpec == SRDFInit /\ [][SRDFNext]_vars

-----------------------------------------------------------------------------
(* A specification for the look-ahead of velocityScalingFactorForSingularity *)
(* alone: the condition number of the Jacobian, the condition number the     *)
(* Jacobian has at the probe joint configuration and the dot product of the  *)
(* unflipped singular vector with the command are drawn from bounded sets    *)

\* Line 508: new_svd is built from the argument jacobian, the matrix svd was
\* built from at line 338; the Jacobian at the probe configuration
\* (probe_condition) is never evaluated
NewCondition(ini_condition, probe_condition) == ini_condition

\* Line 512: whether vector_toward_singularity is multiplied by -1
SingularVectorFlipped(ini_condition, new_condition) ==
  ini_condition >= new_condition

\* Lines 514 and 518: the dot product of the possibly flipped vector
DotAfterFlip(flipped, dot) == IF flipped THEN -dot ELSE dot

LookAheadInputs ==
  [ini_condition : 1..MaxCond, probe_condition : 1..MaxCond, dot : {-1, 0, 1}]

LookAheadInit ==
  /\ InitObject
  /\ writes = 0
  /\ \E th \in SingularityThresholds :
       parameters_ = [BaseParameters EXCEPT
                        !.lower_singularity_threshold = th.lower,
                        !.hard_stop_singularity_threshold = th.hard]
  /\ fn_in \in LookAheadInputs
  /\ fn_out = << >>

ApplyLookAhead ==
  /\ fn_out = << >>
  /\ LET flipped == SingularVectorFlipped(
                      fn_in.ini_condition,
                      NewCondition(fn_in.ini_condition, fn_in.probe_condition))
     IN  fn_out' = << flipped,
                      VelocityScale(fn_in.ini_condition,
                                    DotAfterFlip(flipped, fn_in.dot)) >>
  /\ UNCHANGED <<pc, mutex, shared_variables, parameters_, stop_jog_loop_requested_,
                 halt_outgoing_jog_cmds_, is_initialized_, joint_state_,
                 original_joint_state_, incoming_joints_, position_filters_,
                 delta_theta_, outgoing_command_, has_warning_, kinematic_state_,
                 tf_moveit_to_cmd_frame_, warning_pub_, cartesian_deltas,
                 joint_deltas, zero_cartesian_cmd_flag, zero_joint_cmd_flag,
                 stale_command, zero_velocity_count, collision_scale,
                 singularity_scale, fn_in, writes>>

LookAheadNext == ApplyLookAhead

LookAheadSpec == LookAheadInit /\ [][LookAheadNext]_vars

-----------------------------------------------------------------------------
(* A specification for the publication of halt messages over consecutive    *)
(* cycles.  It starts where the running loop is entered (line 152) with     *)
(* num_outgoing_halt_msgs_to_publish drawn from 1..INT_MAX, replaces lines  *)
(* 154-215 of a cycle by a choice of what they leave behind, and runs lines *)
(* 217-261 as the loop does.  fn_out counts the cycles of the current run   *)
(* of zero cycles.  A cycle that ends in the continue of line 196 or 205    *)
(* changes nothing here: it is a stuttering step.                           *)

\* The longest run of zero cycles that is followed
MaxRun == INT_MAX + 2

\* The joint velocities lines 154-211 may leave in the composed trajectory
CycleVelocities == { Zeros(N), <<3, 0>> }

HaltRunInit ==
  /\ pc = "L152"
  /\ mutex = "free"
  /\ shared_variables =
       [DefaultShared EXCEPT
          !.joints = << [name |-> "j1", position |-> 0],
                        [name |-> "j2", position |-> 0] >>,
          !.command_deltas = [stamp |-> 1, twist |-> ZeroTwist]]
  /\ \E n \in 1..INT_MAX :
       parameters_ = [BaseParameters EXCEPT !.num_outgoing_halt_msgs_to_publish = n]
  /\ stop_jog_loop_requested_ = FALSE
  /\ halt_outgoing_jog_cmds_ = FALSE
  /\ is_initialized_ = TRUE
  /\ joint_state_ = [position |-> Zeros(N), velocity |-> Zeros(N)]
  /\ original_joint_state_ = [position |-> Zeros(N), velocity |-> Zeros(N)]
  /\ incoming_joints_ = shared_variables.joints
  /\ position_filters_ = [i \in 1..N |-> FilterReset(0)]
  /\ delta_theta_ = << >>
  /\ outgoing_command_ = EmptyTrajectory
  /\ has_warning_ = FALSE
  /\ kinematic_state_ = [position |-> Zeros(N), velocity |-> Zeros(N)]
  /\ tf_moveit_to_cmd_frame_ = << >>
  /\ warning_pub_ = << >>
  /\ cartesian_deltas = shared_variables.command_deltas
  /\ joint_deltas = DefaultJointJog
  /\ zero_cartesian_cmd_flag = TRUE
  /\ zero_joint_cmd_flag = TRUE
  /\ stale_command = FALSE
  /\ zero_velocity_count = 0
  /\ collision_scale = ScaleOne
  /\ singularity_scale = ScaleOne
  /\ fn_in = << >>
  /\ fn_out = [run |-> 0]
  /\ writes = 0

\* Lines 152-215 of a cycle that is not paused and whose command is accepted:
\* the zero flags (lines 184-185), the trajectory (line 386 or 210) and the
\* stale flag (line 214)
CycleHead ==
  /\ pc = "L152"
  /\ ~halt_outgoing_jog_cmds_
  /\ \E zero_cartesian \in BOOLEAN, zero_joint \in BOOLEAN, stale \in BOOLEAN,
        velocity \in CycleVelocities :
       LET zero_cycle == stale \/ (zero_cartesian /\ zero_joint)
       IN  /\ zero_cycle => fn_out.run < MaxRun
           /\ (zero_cartesian /\ zero_joint) => velocity = Zeros(N)
           /\ zero_cartesian_cmd_flag' = zero_cartesian
           /\ zero_joint_cmd_flag' = zero_joint
           /\ stale_command' = stale
           /\ outgoing_command_' =
                ComposeJointTrajMessage([joint_state_ EXCEPT !.velocity = velocity])
           /\ fn_out' = [run |-> IF zero_cycle THEN fn_out.run + 1 ELSE 0]
  /\ pc' = "L217"
  /\ UNCHANGED <<mutex, shared_variables, is_initialized_, position_filters_,
                 gRequests, parameters_, fn_in, writes, gJoints, gKinematic,
                 delta_theta_, has_warning_, warning_pub_, collision_scale,
                 singularity_scale, cartesian_deltas, joint_deltas,
                 zero_velocity_count>>

\* Lines 152-181 of a paused cycle
PausedCycleHead ==
  /\ pc = "L152"
  /\ halt_outgoing_jog_cmds_
  /\ position_filters_' = ResetFilters(position_filters_, joint_state_.position)
  /\ pc' = "L261_sleep"
  /\ UNCHANGED <<mutex, shared_variables, is_initialized_, gRequests, gFixed,
                 gJoints, gKinematic, gCalc, gLocals>>

HaltRunNext ==
  \/ CycleHead
  \/ PausedCycleHead
  \/ HaltOutgoingJogCmds
  \/ HaltIfStale
  \/ Lock("L227_lock", "L229_crit")
  \/ Publish
  \/ CountZeroCycles
  \/ PeriodSleep

HaltRunSpec == HaltRunInit /\ [][HaltRunNext]_vars

-----------------------------------------------------------------------------
(* A specification with a restart: once startMainLoop has returned, it may  *)
(* be called again on the same JogCalcs object                              *)

\* startMainLoop has returned and the object is as the run left it; the
\* restarts followed are those of an object whose filter bank has grown to
\* at most N filters
StartAgain ==
  /\ pc = "returned"
  /\ Len(position_filters_) <= N
  /\ pc' = "idle"
  /\ UNCHANGED <<mutex, gData>>

RestartNext == Next \/ StartAgain

RestartSpec == Init /\ [][RestartNext]_vars

-----------------------------------------------------------------------------
(* Properties *)

\* C1: the step that leaves the publish section writes the staged trajectory
\* to the shared slot and sets ok_to_publish when the cycle is non-zero (a zero
\* flag is false and the command is not stale); when the cycle is a zero cycle,
\* num_outgoing_halt_msgs_to_publish is not 0 and zero_velocity_count exceeds
\* it, the step clears ok_to_publish and leaves the slot alone; in every other
\* case it writes the slot and sets ok_to_publish.  With
\* num_outgoing_halt_msgs_to_publish = 0 no step takes ok_to_publish from true
\* to false.
C1_PublishPolicy ==
  [][LET nonzero == (~zero_cartesian_cmd_flag \/ ~zero_joint_cmd_flag) /\ ~stale_command
         n       == parameters_.num_outgoing_halt_msgs_to_publish
         written == /\ shared_variables'.outgoing_command = outgoing_command_
                    /\ shared_variables'.ok_to_publish
         skipped == /\ ~shared_variables'.ok_to_publish
                    /\ shared_variables'.outgoing_command = shared_variables.outgoing_command
     IN  /\ (pc = "L229_crit" /\ pc' = "L251") =>
              IF nonzero THEN written
              ELSE IF n # 0 /\ zero_velocity_count > n THEN skipped
              ELSE written
         /\ (n = 0 /\ shared_variables.ok_to_publish) => shared_variables'.ok_to_publish
    ]_vars

\* A zero cycle past the bound has cleared ok_to_publish over a slot that an
\* earlier cycle wrote
C1_Witness ==
  /\ pc = "L251"
  /\ zero_cartesian_cmd_flag /\ zero_joint_cmd_flag
  /\ parameters_.num_outgoing_halt_msgs_to_publish # 0
  /\ zero_velocity_count > parameters_.num_outgoing_halt_msgs_to_publish
  /\ ~shared_variables.ok_to_publish
  /\ shared_variables.outgoing_command.points # << >>

\* C2: after the stale check of a cycle whose command is stale or whose zero
\* flags are both set, both zero flags are true and every point of the staged
\* trajectory is a halt: its positions, when published, are the
\* original_joint_state_ snapshot and its velocities, when published, are 0
C2_StaleOrZeroHaltsEveryPoint ==
  (pc \in {"L227_lock", "L229_crit"}
     /\ (stale_command \/ (zero_cartesian_cmd_flag /\ zero_joint_cmd_flag))) =>
    /\ zero_cartesian_cmd_flag /\ zero_joint_cmd_flag
    /\ \A k \in 1..Len(outgoing_command_.points) :
         /\ parameters_.publish_joint_positions =>
              outgoing_command_.points[k].positions = original_joint_state_.position
         /\ parameters_.publish_joint_velocities =>
              outgoing_command_.points[k].velocities = Zeros(N)

\* C3: the step that ends cartesianJogCalcs with a combined scale under 10%
\* leaves a sudden halt in outgoing_command_: the positions, when published,
\* are the original_joint_state_ snapshot and the velocities, when published,
\* are 0
C3_StuckLeavesHalt ==
  [][(/\ pc = "L471" /\ pc' = "L213_lock"
      /\ 10 * collision_scale * singularity_scale < ScaleOne * ScaleOne) =>
       /\ outgoing_command_'.points # << >>
       /\ \A k \in 1..Len(outgoing_command_'.points) :
            /\ parameters_.publish_joint_positions =>
                 outgoing_command_'.points[k].positions = original_joint_state_.position
            /\ parameters_.publish_joint_velocities =>
                 outgoing_command_'.points[k].velocities = Zeros(N)
    ]_vars

\* C4: from the loop test to the rejection of the selected command (a NaN
\* component, a spatial component over 1 in magnitude under unitless, a joint
\* velocity that is NaN or over 1 in magnitude), no step of a cycle changes the
\* shared outgoing slot, ok_to_publish, outgoing_command_ or the filter bank,
\* none publishes a warning, joint_state_ changes only inside updateJoints,
\* and the rejection takes the loop back to its test
C4_RejectedCommandChangesNothing ==
  [][LET spatial_invalid ==
           \E i \in 1..6 :
             \/ IsNaN(cartesian_deltas.twist[i])
             \/ /\ parameters_.command_in_type = "unitless"
                /\ ~IsNaN(cartesian_deltas.twist[i])
                /\ Fabs(cartesian_deltas.twist[i]) > 1
         joint_invalid ==
           \E m \in 1..Len(joint_deltas.joints) :
             \/ IsNaN(joint_deltas.joints[m].velocity)
             \/ Fabs(joint_deltas.joints[m].velocity) > 1
         rejecting == \/ pc = "L195" /\ spatial_invalid
                      \/ pc = "L204" /\ joint_invalid
         on_the_way ==
           \/ pc \in {"L152", "L157_lock", "L157_crit", "L157_body", "L159_sleep",
                      "L161", "L168_lock", "L169_crit", "L183_lock", "L184_crit",
                      "L191_lock", "L192_crit", "L200_lock", "L201_crit"}
           \/ pc = "L174" /\ ~halt_outgoing_jog_cmds_
           \/ pc = "L189" /\ ~(zero_cartesian_cmd_flag /\ zero_joint_cmd_flag)
     IN  /\ (rejecting \/ on_the_way) =>
              /\ shared_variables'.outgoing_command = shared_variables.outgoing_command
              /\ shared_variables'.ok_to_publish = shared_variables.ok_to_publish
              /\ outgoing_command_' = outgoing_command_
              /\ position_filters_' = position_filters_
              /\ Len(warning_pub_') <= Len(warning_pub_)
              /\ pc # "L157_body" => joint_state_' = joint_state_
         /\ (rejecting /\ pc' # pc) => pc' = "L152"
    ]_vars

\* A NaN spatial command is about to be rejected in a loop that has published
C4_Witness ==
  /\ pc = "L195"
  /\ \E i \in 1..6 : IsNaN(cartesian_deltas.twist[i])
  /\ shared_variables.ok_to_publish
  /\ outgoing_command_.points # << >>

\* C5 as stated: the step that rejects a unitless spatial command with a
\* component over 1 in magnitude publishes nothing and adds one to
\* zero_velocity_count
C5_OverRangeIncrementsCount ==
  [][(/\ pc = "L195" /\ pc' # pc
      /\ parameters_.command_in_type = "unitless"
      /\ \E i \in 1..6 : FabsGtOne(cartesian_deltas.twist[i])) =>
       /\ shared_variables' = shared_variables
       /\ zero_velocity_count' = zero_velocity_count + 1
    ]_vars

\* C5: the cycle of a unitless spatial command with a component over 1 in
\* magnitude ends at the rejection, before the publish section and before the
\* counter: the rejecting step goes back to the loop test, publishes nothing
\* and leaves zero_velocity_count as it was
C5_OverRangeLeavesCount ==
  [][(/\ pc = "L195" /\ pc' # pc
      /\ parameters_.command_in_type = "unitless"
      /\ \E i \in 1..6 : FabsGtOne(cartesian_deltas.twist[i])) =>
       /\ pc' = "L152"
       /\ shared_variables' = shared_variables
       /\ zero_velocity_count' = zero_velocity_count
    ]_vars

\* An over-range unitless command is about to be rejected while the counter
\* is not 0
C5_Witness ==
  /\ pc = "L195"
  /\ parameters_.command_in_type = "unitless"
  /\ \E i \in 1..6 : FabsGtOne(cartesian_deltas.twist[i])
  /\ zero_velocity_count > 0

\* C6: the branch taken after the zero flags are read is the spatial one when
\* zero_cartesian_cmd_flag is false, the joint one when it is true and
\* zero_joint_cmd_flag is false, and the stand-still one, which builds the
\* trajectory from joint_state_, only when both are true; a spatial cycle
\* never reads the joint command and never enters the joint branch, also when
\* its command is rejected
C6_CommandPriority ==
  [][LET spatial == {"L191_lock", "L192_crit", "L195", "L330", "L467_lock",
                     "L468_crit", "L471"}
         joint   == {"L200_lock", "L201_crit", "L204"}
     IN  /\ (pc = "L189" /\ pc' # pc) =>
              /\ pc' = IF ~zero_cartesian_cmd_flag THEN "L191_lock"
                       ELSE IF ~zero_joint_cmd_flag THEN "L200_lock"
                       ELSE "L213_lock"
              /\ outgoing_command_' =
                   IF zero_cartesian_cmd_flag /\ zero_joint_cmd_flag
                   THEN [points |->
                           << [positions  |-> IF parameters_.publish_joint_positions
                                              THEN joint_state_.position ELSE << >>,
                               velocities |-> IF parameters_.publish_joint_velocities
                                              THEN joint_state_.velocity ELSE << >>] >>]
                   ELSE outgoing_command_
         /\ pc \in spatial =>
              /\ ~zero_cartesian_cmd_flag
              /\ joint_deltas' = joint_deltas
              /\ pc' \in spatial \cup {"L152", "L213_lock", "crashed"}
         /\ pc \in joint =>
              /\ zero_cartesian_cmd_flag /\ ~zero_joint_cmd_flag
              /\ cartesian_deltas' = cartesian_deltas
              /\ pc' \in joint \cup {"L152", "L213_lock"}
    ]_vars

\* A spatial command has been read in a cycle whose joint command is not zero
\* either
C6_Witness ==
  /\ pc = "L195"
  /\ ~zero_cartesian_cmd_flag /\ ~zero_joint_cmd_flag
  /\ ~IsZeroJointCommand(shared_variables.joint_command_deltas.joints)

\* C7: a stop request made while the loop runs is followed by the return of
\* startMainLoop
C7_StopTerminates ==
  (stop_jog_loop_requested_ /\ LoopAlive) ~> ~LoopAlive

\* C8: whenever the next step of the loop reads or writes a field of
\* shared_variables, the loop holds the mutex
C8_SharedAccessUnderMutex ==
  pc \in SharedAccessPositions => mutex = "calc"

\* C9: the loop holds the mutex only between a lock and the matching unlock:
\* it does not hold it where it is about to lock, sleeps, computes, publishes,
\* continues or has returned
C9_MutexDiscipline ==
  /\ mutex \in {"free", "calc"}
  /\ pc \notin HoldingPositions => mutex # "calc"

\* The loop sleeps at the end of a cycle that took and released the mutex for
\* its publish section
C9_Witness ==
  /\ pc = "L261_sleep"
  /\ mutex = "free"
  /\ shared_variables.ok_to_publish

\* C10: for lower < hard_stop the factor is 1 when the dot product is not
\* positive; otherwise it is 1 up to the lower threshold, on the linear ramp
\* strictly between the thresholds, and 0 from the hard-stop threshold on
C10_SingularityScaleLaw ==
  fn_out # << >> =>
    LET k0    == fn_in.ini_condition
        lower == parameters_.lower_singularity_threshold
        hard  == parameters_.hard_stop_singularity_threshold
        s     == fn_out[1]
    IN  /\ 0 <= s /\ s <= ScaleOne
        /\ s = IF fn_in.dot <= 0 THEN ScaleOne
               ELSE IF k0 <= lower THEN ScaleOne
               ELSE IF k0 < hard
                    THEN ScaleOne - (ScaleOne * (k0 - lower)) \div (hard - lower)
               ELSE 0

\* C11: the step that runs velocityScalingFactorForSingularity leaves the joint
\* positions of the kinematic state as they were when it was called
C11_ProbeRestored ==
  [][(pc = "L330" /\ pc' = "L467_lock") =>
       kinematic_state_'.position = kinematic_state_.position]_vars

\* C13: zero_velocity_count is always within 0..INT_MAX; the counter step adds
\* one in a zero cycle unless the count is INT_MAX, which it keeps, and sets 0
\* in a non-zero cycle; no other step of the running loop changes the count
C13_CounterSaturates ==
  /\ [](zero_velocity_count \in 0..INT_MAX)
  /\ [][LET counted == IF zero_cartesian_cmd_flag /\ zero_joint_cmd_flag
                       THEN IF zero_velocity_count = INT_MAX THEN INT_MAX
                            ELSE zero_velocity_count + 1
                       ELSE 0
        IN  /\ (pc = "L251" /\ pc' # pc) => zero_velocity_count' = counted
            /\ pc \notin {"L251", "L113"} => zero_velocity_count' = zero_velocity_count
       ]_vars

\* A zero cycle reaches the counter step with the count at INT_MAX
C13_Witness ==
  /\ pc = "L251"
  /\ zero_cartesian_cmd_flag /\ zero_joint_cmd_flag
  /\ zero_velocity_count = INT_MAX

C12_PruneByMask ==
  fn_out # << >> =>
    LET rows    == fn_out[1]
        delta_x == fn_out[2]
        kept    == IF \A d \in 1..6 : fn_in.mask[d] THEN {0}
                   ELSE {d \in 0..5 : ~fn_in.mask[d + 1]}
    IN  /\ Len(rows) >= 1
        /\ Len(delta_x) = Len(rows)
        /\ {rows[k] : k \in 1..Len(rows)} = kept
        /\ \A k \in 1..(Len(rows) - 1) : rows[k] < rows[k + 1]
        /\ \A k \in 1..Len(rows) : delta_x[k] = fn_in.delta_x[rows[k] + 1]

\* C16: on a snapshot with fewer than N names updateJoints returns false and
\* leaves joint_state_ and original_joint_state_ alone; otherwise it returns
\* true, the position of every joint the snapshot names is the position of the
\* last entry that names it, the position of every other joint and all
\* velocities are as before, and original_joint_state_ equals joint_state_
C16_UpdateJoints ==
  fn_out # << >> =>
    LET inc == fn_in.incoming
    IN  IF Len(inc) < N
        THEN /\ ~fn_out.returns
             /\ fn_out.joint_state = fn_in.joint_state
             /\ fn_out.original = fn_in.original
        ELSE /\ fn_out.returns
             /\ Len(fn_out.joint_state.position) = N
             /\ \A j \in 1..N :
                  LET named == {m \in 1..Len(inc) : inc[m].name = JointNames[j]}
                      last  == CHOOSE m \in named : \A k \in named : k <= m
                  IN  fn_out.joint_state.position[j] =
                        IF named = {} THEN fn_in.joint_state.position[j]
                        ELSE inc[last].position
             /\ fn_out.joint_state.velocity = fn_in.joint_state.velocity
             /\ fn_out.original = fn_out.joint_state

\* updateJoints has returned true on a snapshot that names j1 twice with
\* different positions, names an unknown joint and does not name j2
C16_Witness ==
  /\ fn_out # << >>
  /\ fn_out.returns
  /\ fn_in.incoming = << [name |-> "j1", position |-> 1],
                         [name |-> "x", position |-> 1],
                         [name |-> "j1", position |-> 2] >>
  /\ fn_out.joint_state.position = <<2, 6>>

C18_ClampedVelocityWritten ==
  (fn_out # << >> /\ parameters_.publish_joint_velocities) =>
    \A j \in 1..N :
      Fabs(fn_in.kinematic.velocity[j]) > RobotModel.max_velocity =>
        /\ Fabs(fn_out.kinematic.velocity[j]) = RobotModel.max_velocity
        /\ fn_out.traj.points[1].velocities[j] = fn_out.kinematic.velocity[j]

\* C19: the position-margin halt of a cycle is decided on the candidate state
\* of that cycle.  When, for some joint, the updated and filtered position is
\* outside the margin, the velocity delta_theta / publish_period of this cycle
\* points toward the limit and the joint's snapshot angle is inside that
\* margin, the calculation leaves a halt in outgoing_command_: snapshot
\* positions and zero velocities, where published
C19_HaltOnCandidateState ==
  [][(pc \in {"L471", "L204"} /\ pc' = "L213_lock") =>
       LET lo == RobotModel.min_position + parameters_.joint_limit_margin
           hi == RobotModel.max_position - parameters_.joint_limit_margin
           position == joint_state_'.position
           velocity == [j \in 1..N |-> delta_theta_'[j] \div parameters_.publish_period]
           toward(j) == \/ velocity[j] < 0 /\ original_joint_state_.position[j] < lo
                        \/ velocity[j] > 0 /\ original_joint_state_.position[j] > hi
           point == outgoing_command_'.points[1]
       IN  (\E j \in 1..N : (position[j] < lo \/ position[j] > hi) /\ toward(j)) =>
             /\ parameters_.publish_joint_positions =>
                  point.positions = original_joint_state_.position
             /\ parameters_.publish_joint_velocities =>
                  point.velocities = Zeros(N)
    ]_vars

\* C20: every iteration of the wait for the first command resets the filter of
\* each joint to the position the latest telemetry in the shared variables
\* gives for that joint
C20_WaitResetsToLatestTelemetry ==
  [][(pc = "L118_sleep" /\ pc' = "L125_lock") =>
       \A j \in 1..N :
         LET joints == shared_variables.joints
             named  == {m \in 1..Len(joints) : joints[m].name = JointNames[j]}
             last   == CHOOSE m \in named : \A k \in named : k <= m
         IN  named # {} =>
               position_filters_'[j].previous_measurement = joints[last].position
    ]_vars

\* C21: the singular vector is flipped exactly when the condition number of the
\* Jacobian is at least the condition number the Jacobian has at the probe
\* joint configuration
C21_FlipIffProbeNotWorse ==
  fn_out # << >> =>
    (fn_out[1] <=> fn_in.ini_condition >= fn_in.probe_condition)

\* C22: whenever suddenHalt is about to be called (line 350 when the scaling
\* reports stuck, line 219 when the command is stale or zero), the trajectory
\* it receives has a first point whose positions and velocities arrays hold N
\* entries each, as far as the parameters publish them
C22_SuddenHaltInsideTrajectory ==
  LET called == \/ /\ pc = "L471"
                   /\ ~ApplyVelocityScalingReturns(collision_scale, singularity_scale)
                \/ /\ pc = "L217"
                   /\ stale_command \/ (zero_cartesian_cmd_flag /\ zero_joint_cmd_flag)
      points == outgoing_command_.points
  IN  called =>
        /\ Len(points) >= 1
        /\ parameters_.publish_joint_positions => Len(points[1].positions) = N
        /\ parameters_.publish_joint_velocities => Len(points[1].velocities) = N

C24_BankKeepsN ==
  pc # "idle" =>
    /\ Len(position_filters_) = N
    /\ Len(joint_state_.position) = N
    /\ Len(joint_state_.velocity) = N

\* C25: updateJoints returns true only on a snapshot that gives a position for
\* every joint of the move group
C25_TrueOnlyOnCoveringTelemetry ==
  (fn_out # << >> /\ fn_out.returns) =>
    \A j \in 1..N :
      \E m \in 1..Len(fn_in.incoming) : fn_in.incoming[m].name = JointNames[j]

\* C26: an iteration of the running loop ends with the period sleep of line
\* 261: the loop test of line 152 is reached from the sleep, or from the wait
\* for the first command when the loop is entered, and from nowhere else
C26_EveryIterationSleeps ==
  [][(pc # "L152" /\ pc' = "L152") => pc \in {"L261_sleep", "L113"}]_vars

=============================================================================
